---- MODULE Spec2Model ----
(***************************************************************************)
(* Heimkino transcoding service (src/server.js): the /transcode, /info and *)
(* /audio-remux handlers, the upstream fetch, the engine session started   *)
(* through fluent-ffmpeg, and the piped response, as a state machine over  *)
(* a set of in-flight requests.                                            *)
(***************************************************************************)
EXTENDS Integers, Sequences, FiniteSets, TLC

(* ---------------------------------------------------------------------- *)
(* Bounds and program constants                                            *)
(* ---------------------------------------------------------------------- *)

\* most output bytes an engine session produces in the model
MaxBytes == 2

\* size gate of /transcode, in rounded megabytes (server.js:70)
SizeLimitMB == 30000

\* contentLength / 1024 / 1024 (server.js:63)
BytesPerMB == 1024 * 1024

\* most output bytes of a session when two requests run concurrently
ConcBytes == 1

Reqs == {"r1", "r2"}

Endpoints == {"transcode", "info", "audio-remux"}

(* ---------------------------------------------------------------------- *)
(* Inputs                                                                  *)
(* ---------------------------------------------------------------------- *)

\* A content-length header is absent (<<>>) or a byte count, kept as
\* <<whole megabytes, remaining bytes>> so that counts above 2^31 stay exact.
NoLength == <<>>

ContentLengths ==
  {NoLength} \cup
  { <<mb, rem>> : mb \in {0, SizeLimitMB - 1, SizeLimitMB, SizeLimitMB + 1},
                  rem \in {0, 1, (BytesPerMB \div 2) - 1, BytesPerMB \div 2} }

SmallLengths == {<<SizeLimitMB, 0>>, <<SizeLimitMB + 1, 0>>}

\* ffprobe format names and codec names, as character sequences
Fmt_mp4 == <<"m","o","v",",","m","p","4",",","m","4","a">>
Fmt_mkv == <<"m","a","t","r","o","s","k","a",",","w","e","b","m">>
Fmt_mpeg == <<"m","p","e","g">>
Fmt_amp4 == <<"m","p","4">>

FormatNames == {Fmt_mp4, Fmt_mkv, Fmt_mpeg, Fmt_amp4}

Str_mp4 == <<"m","p","4">>

\* codec_name of the first video stream; "none" when there is no video stream
VideoCodecs == {"h264", "hevc", "none"}

Sources == [codec : VideoCodecs, format : FormatNames]

SmallSources == { [codec |-> "hevc", format |-> Fmt_mkv] }

NoSource == [codec |-> "none", format |-> <<>>]

\* r_frame_rate of the video stream as the probe reports it, as a sequence
\* of tokens; the metadata is untrusted, so it need not be a fraction
Rate_ntsc == <<"30000", "/", "1001">>
Rate_zero == <<"0", "/", "0">>
Rate_sum == <<"25", "+", "1">>
Rate_call == <<"f", "(", ")">>
Rate_junk == <<"25", "/">>

RateStrings == {Rate_ntsc, Rate_zero, Rate_sum, Rate_call, Rate_junk}

SmallRates == {Rate_ntsc, Rate_junk}

NoRate == <<>>

Numerals == {"0", "1", "25", "1001", "30000"}

\* the number a numeral token denotes
NumVal(t) ==
  CASE t = "0" -> 0
    [] t = "1" -> 1
    [] t = "25" -> 25
    [] t = "1001" -> 1001
    [] t = "30000" -> 30000
    [] OTHER -> 0

\* outcomes of computing the frame rate
NoFps == [kind |-> "none", num |-> 0, den |-> 0]
FpsFailure == [kind |-> "failure", num |-> 0, den |-> 0]
FpsCall == [kind |-> "call", num |-> 0, den |-> 0]

\* what code named by the metadata can do once it is called
CallOutcomes == {"returns", "throws", "hangs"}

\* only the progress events with a truthy percent are logged
Percents == {0, 50}

(* ---------------------------------------------------------------------- *)
(* Pure functions of the handlers                                          *)
(* ---------------------------------------------------------------------- *)

\* FileSizeMB with an absent header counted as larger than any limit
FileSizeMBUnknownHuge(cl) ==
  IF cl = NoLength THEN SizeLimitMB + 1
  ELSE IF 2 * cl[2] >= BytesPerMB THEN cl[1] + 1 ELSE cl[1]

\* Math.round(contentLength / 1024 / 1024), 0 when the header is absent
FileSizeMB(cl) ==
  IF cl = NoLength THEN 0
  ELSE IF 2 * cl[2] >= BytesPerMB THEN cl[1] + 1 ELSE cl[1]

\* TooLarge with >= in place of >
TooLargeInclusive(cl) == FileSizeMB(cl) >= SizeLimitMB

\* fileSizeMB > 30000
TooLarge(cl) == FileSizeMB(cl) > SizeLimitMB

\* String.prototype.includes
Includes(s, sub) ==
  \E i \in 0..(Len(s) - Len(sub)) :
     \A j \in 1..Len(sub) : s[i + j] = sub[j]

\* MobileCompatible with the format name compared to 'mp4' for equality
MobileCompatibleExact(src) ==
  src.codec = "h264" /\ src.format = Str_mp4

\* videoStream?.codec_name === 'h264' && format_name.includes('mp4')
MobileCompatible(src) ==
  src.codec = "h264" /\ Includes(src.format, Str_mp4)

\* eval(videoStream.r_frame_rate): the string is run as an expression; a
\* quotient or a sum gives its value (kept as num/den), a call runs the
\* called code, anything else throws
EvalJS(s) ==
  IF Len(s) = 3 /\ s[1] \in Numerals /\ s[2] = "/" /\ s[3] \in Numerals
  THEN [kind |-> "number", num |-> NumVal(s[1]), den |-> NumVal(s[3])]
  ELSE IF Len(s) = 3 /\ s[1] \in Numerals /\ s[2] = "+" /\ s[3] \in Numerals
  THEN [kind |-> "number", num |-> NumVal(s[1]) + NumVal(s[3]), den |-> 1]
  ELSE IF Len(s) = 3 /\ s[2] = "(" /\ s[3] = ")"
  THEN FpsCall
  ELSE FpsFailure

\* .videoCodec('copy') of /transcode
TranscodeVideoCodec(src) == "copy"

\* .videoCodec('copy') of /audio-remux
RemuxVideoCodec(src) == "copy"

\* .audioCodec('aac')
AudioCodec(src) == "aac"

VideoCodecFor(ep, src) ==
  IF ep = "transcode" THEN TranscodeVideoCodec(src) ELSE RemuxVideoCodec(src)

(* ---------------------------------------------------------------------- *)
(* State                                                                   *)
(* ---------------------------------------------------------------------- *)

VARIABLES req, plog

vars == <<req, plog>>

\* a request slot before the request arrives
IdleReq ==
  [ ep          |-> "none",     \* endpoint of the request
    hasUrl      |-> FALSE,      \* req.query.url is truthy
    pc          |-> "idle",     \* idle, fetch, probe, stream, done
    fetches     |-> 0,          \* upstream GETs issued
    fetch       |-> "none",     \* none, pending, ok, failed
    up          |-> "none",     \* none, open, flowing, paused, ended, error
    cl          |-> NoLength,   \* content-length of the upstream response
    src         |-> NoSource,   \* what the source really contains
    eng         |-> "none",     \* none, Starting, Running, Completed, Failed
    vcodec      |-> "none",     \* video action of the session
    acodec      |-> "none",     \* audio action of the session
    probe       |-> "none",     \* none, running, ok, failed
    proc        |-> "none",     \* none, run, exit0, exitErr, killed
    stdout      |-> "none",     \* none, open, ended
    out         |-> 0,          \* bytes the engine has written to stdout
    piped       |-> 0,          \* bytes the pipe has taken from stdout
    closeTimer  |-> FALSE,      \* 'close' of the response seen, kill scheduled
    status      |-> 0,          \* status set with res.status, 0 when unset
    ctype       |-> "none",     \* Content-Type header
    headersSent |-> FALSE,      \* res.headersSent
    body        |-> "none",     \* none, error, info, video
    written     |-> 0,          \* video bytes written to the response
    ended       |-> FALSE,      \* res.end() has been called
    client      |-> "none",     \* none, connected, gone
    rcvStatus   |-> 0,          \* status line the client received, 0 if none
    rcvBody     |-> "none",     \* body kind the client received
    rcvBytes    |-> 0,          \* video bytes the client received
    rcvEnd      |-> FALSE,      \* the client saw the response end
    mobile      |-> FALSE,      \* mobileCompatible of the /info result
    sends       |-> 0,          \* times a status line and headers went out
    hdrSets     |-> 0,          \* times the streaming headers were set
    sessions    |-> 0,          \* engine sessions created for the request
    outSeq      |-> <<>>,       \* the bytes the engine has written, in order
    rcvSeq      |-> <<>>,       \* the video bytes the client has received
    rate        |-> NoRate,     \* r_frame_rate the probe callback was given
    fps         |-> NoFps,      \* outcome of computing the frame rate
    effect      |-> FALSE,      \* code named by the metadata has been run
    dead        |-> FALSE,      \* the process handles no further event
    closed      |-> FALSE ]     \* the connection was cut with the process

\* plog is the console: the percents of the progress lines logged so far
Init ==
  /\ req = [r \in Reqs |-> IdleReq]
  /\ plog = {}

(* ---------------------------------------------------------------------- *)
(* Response operations (express / http.ServerResponse)                     *)
(* ---------------------------------------------------------------------- *)

\* the status line that goes out with the headers
StatusCode(q) == IF q.status = 0 THEN 200 ELSE q.status

\* res.status(code).json(obj): Content-Type is set only when none is set yet
SendJson(q, code, kind) ==
  [q EXCEPT !.status = code,
            !.ctype = IF q.ctype = "none" THEN "application/json" ELSE q.ctype,
            !.sends = q.sends + 1,
            !.headersSent = TRUE,
            !.body = kind,
            !.ended = TRUE,
            !.rcvStatus = IF q.client = "connected" THEN code ELSE q.rcvStatus,
            !.rcvBody = IF q.client = "connected" THEN kind ELSE q.rcvBody,
            !.rcvEnd = IF q.client = "connected" THEN TRUE ELSE q.rcvEnd]

\* SendErrorUnlessSent without the headersSent guard
SendErrorAlways(q) == SendJson(q, 500, "error")

\* if (!res.headersSent) res.status(500).json(...)
SendErrorUnlessSent(q) ==
  IF q.headersSent THEN q ELSE SendJson(q, 500, "error")

\* SetStreamHeaders left out of the handler
SetStreamHeadersMissing(q) == q

\* res.setHeader('Content-Type', 'video/mp4') and the two other headers
SetStreamHeaders(q) ==
  [q EXCEPT !.ctype = "video/mp4", !.hdrSets = q.hdrSets + 1]

\* ResWrite handing on the newest chunk of stdout instead of the next one
ResWriteLatest(q) ==
  [q EXCEPT !.headersSent = TRUE,
            !.sends = IF q.headersSent THEN q.sends ELSE q.sends + 1,
            !.body = "video",
            !.written = q.written + 1,
            !.rcvSeq = IF q.client = "connected"
                       THEN Append(q.rcvSeq, q.outSeq[Len(q.outSeq)])
                       ELSE q.rcvSeq,
            !.rcvStatus = IF q.client = "connected" /\ ~q.headersSent
                          THEN StatusCode(q) ELSE q.rcvStatus,
            !.rcvBody = IF q.client = "connected" THEN "video" ELSE q.rcvBody,
            !.rcvBytes = IF q.client = "connected"
                         THEN q.rcvBytes + 1 ELSE q.rcvBytes]

\* res.write(chunk) done by the pipe, which has just taken the chunk at
\* position piped from stdout: the first write flushes the headers
ResWrite(q) ==
  [q EXCEPT !.headersSent = TRUE,
            !.sends = IF q.headersSent THEN q.sends ELSE q.sends + 1,
            !.body = "video",
            !.written = q.written + 1,
            !.rcvSeq = IF q.client = "connected"
                       THEN Append(q.rcvSeq, q.outSeq[q.piped]) ELSE q.rcvSeq,
            !.rcvStatus = IF q.client = "connected" /\ ~q.headersSent
                          THEN StatusCode(q) ELSE q.rcvStatus,
            !.rcvBody = IF q.client = "connected" THEN "video" ELSE q.rcvBody,
            !.rcvBytes = IF q.client = "connected"
                         THEN q.rcvBytes + 1 ELSE q.rcvBytes]

\* res.end() done by the pipe (end: true): flushes the headers if needed
ResEnd(q) ==
  IF q.ended THEN q
  ELSE [q EXCEPT !.headersSent = TRUE,
                 !.sends = IF q.headersSent THEN q.sends ELSE q.sends + 1,
                 !.ended = TRUE,
                 !.rcvStatus = IF q.client = "connected" /\ ~q.headersSent
                               THEN StatusCode(q) ELSE q.rcvStatus,
                 !.rcvEnd = IF q.client = "connected" THEN TRUE ELSE q.rcvEnd]

(* ---------------------------------------------------------------------- *)
(* Engine session operations (fluent-ffmpeg command)                       *)
(* ---------------------------------------------------------------------- *)

\* ffmpeg(inputStream).videoCodec(..).audioCodec(..)...pipe(res, {end: true})
StartSession(q) ==
  [q EXCEPT !.eng = "Starting",
            !.sessions = q.sessions + 1,
            !.vcodec = VideoCodecFor(q.ep, q.src),
            !.acodec = AudioCodec(q.src),
            !.pc = "stream"]

\* OnError with a handler that starts the session again
OnErrorRestart(q) ==
  IF q.eng \in {"Starting", "Running"}
  THEN StartSession(SendErrorUnlessSent([q EXCEPT !.eng = "Failed"]))
  ELSE q

\* .on('error', ...): runs once per session, when the engine reports a failure
OnError(q) ==
  IF q.eng \in {"Starting", "Running"}
  THEN SendErrorUnlessSent([q EXCEPT !.eng = "Failed"])
  ELSE q

\* .on('end', ...): logs only
OnEnd(q) ==
  IF q.eng = "Running" THEN [q EXCEPT !.eng = "Completed"] ELSE q

\* the consumer of the source stream (the stdin of the engine or of the
\* probe) goes away: the stream, which no handler destroys, is left unpiped
Unpipe(q) ==
  [q EXCEPT !.up = IF q.up = "flowing" THEN "paused" ELSE q.up]

\* the engine process is killed
Kill(q) ==
  IF q.proc = "run" THEN Unpipe([q EXCEPT !.proc = "killed"]) ELSE q

(* ---------------------------------------------------------------------- *)
(* Handlers up to the first await                                          *)
(* ---------------------------------------------------------------------- *)

\* Request without the check of url
RequestNoUrlCheck(r, ep, u) ==
  /\ ~req[r].dead
  /\ plog' = plog
  /\ req[r].pc = "idle"
  /\ req' = [req EXCEPT ![r] =
               [IdleReq EXCEPT !.ep = ep, !.hasUrl = u, !.client = "connected",
                               !.pc = "fetch", !.fetches = 1,
                               !.fetch = "pending"]]

\* app.get(path, async (req, res) => { if (!url) return 400; ... await axios
Request(r, ep, u) ==
  /\ ~req[r].dead
  /\ plog' = plog
  /\ req[r].pc = "idle"
  /\ LET q == [IdleReq EXCEPT !.ep = ep, !.hasUrl = u, !.client = "connected"]
     IN req' = [req EXCEPT ![r] =
                  IF ~u
                  THEN [SendJson(q, 400, "error") EXCEPT !.pc = "done"]
                  ELSE [q EXCEPT !.pc = "fetch", !.fetches = 1,
                                 !.fetch = "pending"]]

\* FetchFail with a catch block that only logs
FetchFailSilent(r, kind) ==
  /\ ~req[r].dead
  /\ plog' = plog
  /\ req[r].pc = "fetch"
  /\ req' = [req EXCEPT ![r] =
               [req[r] EXCEPT !.pc = "done", !.fetch = "failed",
                              !.up = IF kind = "http" THEN "open" ELSE "none"]]

\* FetchFail with a catch block that issues the GET again
FetchFailRetry(r, kind) ==
  /\ ~req[r].dead
  /\ plog' = plog
  /\ req[r].pc = "fetch"
  /\ req' = [req EXCEPT ![r] =
               [req[r] EXCEPT !.fetches = req[r].fetches + 1]]

\* the awaited axios call rejects: connection error ("conn") or a non-2xx
\* status ("http", whose unread body stream stays with the rejected error)
FetchFail(r, kind) ==
  /\ ~req[r].dead
  /\ plog' = plog
  /\ req[r].pc = "fetch"
  /\ LET q == [req[r] EXCEPT !.pc = "done", !.fetch = "failed",
                             !.up = IF kind = "http" THEN "open" ELSE "none"]
     IN req' = [req EXCEPT ![r] =
                  IF q.ep = "info" THEN SendJson(q, 500, "error")
                  ELSE SendErrorUnlessSent(q)]

\* FetchOk with the size gate of /transcode applied to /audio-remux as well
FetchOkGated(r, cl, src) ==
  /\ ~req[r].dead
  /\ plog' = plog
  /\ req[r].pc = "fetch"
  /\ LET q == [req[r] EXCEPT !.fetch = "ok", !.up = "open",
                             !.cl = cl, !.src = src]
     IN req' = [req EXCEPT ![r] =
                  CASE q.ep \in {"transcode", "audio-remux"} ->
                         IF TooLarge(cl)
                         THEN [SendJson(q, 413, "error") EXCEPT !.pc = "done"]
                         ELSE StartSession(SetStreamHeaders(q))
                    [] OTHER ->
                         [q EXCEPT !.probe = "running", !.pc = "probe",
                                   !.up = "flowing"]]

\* FetchOk with the size gate of /transcode placed after the session start
FetchOkGateLate(r, cl, src) ==
  /\ ~req[r].dead
  /\ plog' = plog
  /\ req[r].pc = "fetch"
  /\ LET q == [req[r] EXCEPT !.fetch = "ok", !.up = "open",
                             !.cl = cl, !.src = src]
     IN req' = [req EXCEPT ![r] =
                  CASE q.ep = "transcode" ->
                         IF TooLarge(cl)
                         THEN [SendJson(StartSession(SetStreamHeaders(q)),
                                        413, "error") EXCEPT !.pc = "done"]
                         ELSE StartSession(SetStreamHeaders(q))
                    [] q.ep = "audio-remux" ->
                         StartSession(SetStreamHeaders(q))
                    [] OTHER ->
                         [q EXCEPT !.probe = "running", !.pc = "probe",
                                   !.up = "flowing"]]

\* the awaited axios call resolves; the handler runs on to its end
FetchOk(r, cl, src) ==
  /\ ~req[r].dead
  /\ plog' = plog
  /\ req[r].pc = "fetch"
  /\ LET q == [req[r] EXCEPT !.fetch = "ok", !.up = "open",
                             !.cl = cl, !.src = src]
     IN req' = [req EXCEPT ![r] =
                  CASE q.ep = "transcode" ->
                         IF TooLarge(cl)
                         THEN [SendJson(q, 413, "error") EXCEPT !.pc = "done"]
                         ELSE StartSession(SetStreamHeaders(q))
                    [] q.ep = "audio-remux" ->
                         StartSession(SetStreamHeaders(q))
                    [] OTHER ->
                         [q EXCEPT !.probe = "running", !.pc = "probe",
                                   !.up = "flowing"]]

(* ---------------------------------------------------------------------- *)
(* /info: the ffprobe callback                                             *)
(* ---------------------------------------------------------------------- *)

\* ProbeFail without the return: the callback goes on to res.json(info)
ProbeFailNoReturn(r) ==
  /\ ~req[r].dead
  /\ plog' = plog
  /\ req[r].pc = "probe"
  /\ LET q == Unpipe([req[r] EXCEPT !.pc = "done", !.probe = "failed"])
     IN req' = [req EXCEPT ![r] =
                  SendJson(SendJson(q, 500, "error"), 200, "info")]

\* callback(err): return res.status(500).json(...)
ProbeFail(r) ==
  /\ ~req[r].dead
  /\ plog' = plog
  /\ req[r].pc = "probe"
  /\ LET q == Unpipe([req[r] EXCEPT !.pc = "done", !.probe = "failed"])
     IN req' = [req EXCEPT ![r] = SendJson(q, 500, "error")]

\* an exception leaves a callback that no handler encloses: the process
\* exits, and every connection whose response has not ended is cut
Crash(q) ==
  [q EXCEPT !.dead = TRUE,
            !.closed = (q.client = "connected" /\ ~q.ended)]

\* code that never returns blocks the event loop: no request is served any
\* further, and no connection is closed
Hang(q) == [q EXCEPT !.dead = TRUE]

\* callback(null, metadata): the frame rate of the video stream, if there is
\* one, is computed with eval before res.json(info); outcome is what called
\* code does, when the string is a call
ProbeOk(r, rate, outcome) ==
  /\ ~req[r].dead
  /\ plog' = plog
  /\ req[r].pc = "probe"
  /\ LET q == Unpipe([req[r] EXCEPT !.pc = "done", !.probe = "ok"])
         e == EvalJS(rate)
         v == [q EXCEPT !.rate = rate, !.fps = e,
                        !.effect = (e.kind = "call")]
         m == MobileCompatible(req[r].src)
     IN IF q.src.codec = "none"
        THEN req' = [req EXCEPT ![r] =
                       SendJson([q EXCEPT !.mobile = m], 200, "info")]
        ELSE IF e.kind = "failure" \/ (e.kind = "call" /\ outcome = "throws")
        THEN req' = [s \in Reqs |-> Crash(IF s = r THEN v ELSE req[s])]
        ELSE IF e.kind = "call" /\ outcome = "hangs"
        THEN req' = [s \in Reqs |-> Hang(IF s = r THEN v ELSE req[s])]
        ELSE req' = [req EXCEPT ![r] =
                       SendJson([v EXCEPT !.mobile = m], 200, "info")]

(* ---------------------------------------------------------------------- *)
(* Engine, pipe, upstream and client events                                *)
(* ---------------------------------------------------------------------- *)

\* the engine cannot be started (binary or capabilities missing): 'error'
\* is emitted before any process exists
EngineStartFail(r) ==
  /\ ~req[r].dead
  /\ plog' = plog
  /\ req[r].eng = "Starting"
  /\ req' = [req EXCEPT ![r] = OnError(req[r])]

\* the process is spawned: 'start' is emitted, the source is piped into
\* stdin and stdout is piped into the response
EngineSpawn(r) ==
  /\ ~req[r].dead
  /\ plog' = plog
  /\ req[r].eng = "Starting"
  /\ req' = [req EXCEPT ![r] =
               [req[r] EXCEPT !.eng = "Running", !.proc = "run",
                              !.stdout = "open", !.up = "flowing"]]

\* the engine writes an output byte to stdout; a byte is named by its
\* position in the output
EngineByte(r, maxOut) ==
  /\ ~req[r].dead
  /\ plog' = plog
  /\ req[r].proc = "run"
  /\ req[r].out < maxOut
  /\ req' = [req EXCEPT ![r] =
               [req[r] EXCEPT !.out = req[r].out + 1,
                              !.outSeq = Append(req[r].outSeq, req[r].out + 1)]]

\* the pipe moves one byte from stdout to the response; a write to a
\* response that was already ended errors the response, which kills the engine
PipeByte(r) ==
  /\ ~req[r].dead
  /\ plog' = plog
  /\ req[r].stdout = "open"
  /\ req[r].piped < req[r].out
  /\ LET q == [req[r] EXCEPT !.piped = req[r].piped + 1]
     IN req' = [req EXCEPT ![r] =
                  IF q.ended
                  THEN Kill(OnError([q EXCEPT !.stdout = "ended"]))
                  ELSE ResWrite(q)]

\* stdout ends after the process is gone and drained: the pipe ends the
\* response (end: true)
PipeEnd(r) ==
  /\ ~req[r].dead
  /\ plog' = plog
  /\ req[r].stdout = "open"
  /\ req[r].proc \in {"exit0", "exitErr", "killed"}
  /\ req[r].piped = req[r].out
  /\ req' = [req EXCEPT ![r] = ResEnd([req[r] EXCEPT !.stdout = "ended"])]

\* the source body is read to its end
UpstreamEnd(r) ==
  /\ ~req[r].dead
  /\ plog' = plog
  /\ req[r].up = "flowing"
  /\ req' = [req EXCEPT ![r] = [req[r] EXCEPT !.up = "ended"]]

\* UpstreamError with the error of the source not handed to the session
UpstreamErrorIgnored(r) ==
  /\ ~req[r].dead
  /\ plog' = plog
  /\ req[r].up = "flowing"
  /\ req[r].proc = "run"
  /\ req' = [req EXCEPT ![r] = [req[r] EXCEPT !.up = "error"]]

\* the source stream errors while it is piped into the engine: the engine
\* reports the error at once and the process is killed
UpstreamError(r) ==
  /\ ~req[r].dead
  /\ plog' = plog
  /\ req[r].up = "flowing"
  /\ req[r].proc = "run"
  /\ req' = [req EXCEPT ![r] = Kill(OnError([req[r] EXCEPT !.up = "error"]))]

\* the process exits with code 0 after its input ended
ProcExitOk(r) ==
  /\ ~req[r].dead
  /\ plog' = plog
  /\ req[r].proc = "run"
  /\ req[r].up = "ended"
  /\ req' = [req EXCEPT ![r] = [req[r] EXCEPT !.proc = "exit0"]]

\* the process exits with a non-zero code
ProcExitErr(r) ==
  /\ ~req[r].dead
  /\ plog' = plog
  /\ req[r].proc = "run"
  /\ req' = [req EXCEPT ![r] = Unpipe([req[r] EXCEPT !.proc = "exitErr"])]

\* Progress taking a report of 100 percent for the end of the session
ProgressCompletes(r, percent) ==
  /\ ~req[r].dead
  /\ req[r].proc = "run"
  /\ plog' = (IF percent # 0 THEN plog \cup {percent} ELSE plog)
  /\ req' = [req EXCEPT ![r] = IF percent # 0 THEN OnEnd(req[r]) ELSE req[r]]

\* .on('progress', ...): logs a line when progress.percent is truthy
Progress(r, percent) ==
  /\ ~req[r].dead
  /\ req[r].proc = "run"
  /\ plog' = (IF percent # 0 THEN plog \cup {percent} ELSE plog)
  /\ req' = req

\* 'end' is emitted for a process that exited with code 0
EndEvent(r) ==
  /\ ~req[r].dead
  /\ plog' = plog
  /\ req[r].proc = "exit0"
  /\ req[r].eng = "Running"
  /\ req' = [req EXCEPT ![r] = OnEnd(req[r])]

\* 'error' is emitted for a process that exited with a non-zero code
ErrorEvent(r) ==
  /\ ~req[r].dead
  /\ plog' = plog
  /\ req[r].proc = "exitErr"
  /\ req[r].eng = "Running"
  /\ req' = [req EXCEPT ![r] = OnError(req[r])]

\* the client goes away before the response has ended; once stdout is piped
\* into the response, its 'close' schedules a kill of the engine
ClientDisconnect(r) ==
  /\ ~req[r].dead
  /\ plog' = plog
  /\ req[r].client = "connected"
  /\ ~req[r].ended
  /\ req' = [req EXCEPT ![r] =
               [req[r] EXCEPT !.client = "gone",
                              !.closeTimer = (req[r].stdout = "open")]]

\* the kill scheduled by 'close' of the response: 'error' is emitted unless
\* the session has already ended, and the process is killed
OutputClosed(r) ==
  /\ ~req[r].dead
  /\ plog' = plog
  /\ req[r].closeTimer
  /\ req' = [req EXCEPT ![r] =
               Kill(OnError([req[r] EXCEPT !.closeTimer = FALSE]))]

(* ---------------------------------------------------------------------- *)
(* Specifications                                                          *)
(* ---------------------------------------------------------------------- *)

FetchKinds == {"conn", "http"}

\* every step request r can take, with the sources the fetch may find
Step(r, eps, lengths, sources, rates, maxOut) ==
  \/ \E ep \in eps, u \in BOOLEAN : Request(r, ep, u)
  \/ \E kind \in FetchKinds : FetchFail(r, kind)
  \/ \E cl \in lengths, src \in sources : FetchOk(r, cl, src)
  \/ ProbeFail(r)
  \/ \E rate \in rates, outcome \in CallOutcomes : ProbeOk(r, rate, outcome)
  \/ EngineStartFail(r)
  \/ EngineSpawn(r)
  \/ EngineByte(r, maxOut)
  \/ PipeByte(r)
  \/ PipeEnd(r)
  \/ UpstreamEnd(r)
  \/ UpstreamError(r)
  \/ ProcExitOk(r)
  \/ ProcExitErr(r)
  \/ EndEvent(r)
  \/ ErrorEvent(r)
  \/ ClientDisconnect(r)
  \/ OutputClosed(r)
  \/ \E percent \in Percents : Progress(r, percent)

\* the callbacks of events that have already happened, which the event
\* loop runs: pipe transfers, lifecycle events of an exited process, timers
Sched(r) ==
  \/ PipeByte(r)
  \/ PipeEnd(r)
  \/ EndEvent(r)
  \/ ErrorEvent(r)
  \/ OutputClosed(r)

\* one request, every source
Next == Step("r1", Endpoints, ContentLengths, Sources, RateStrings, MaxBytes)

Spec == Init /\ [][Next]_vars

\* one request, with the event loop running every pending callback
FairSpec == Spec /\ WF_vars(Sched("r1"))

\* what the upstream, the engine and the probe owe: the fetch settles, the
\* probe calls back, the engine starts or fails to, the source body ends or
\* fails, the engine process exits
Env(r) ==
  \/ \E kind \in FetchKinds : FetchFail(r, kind)
  \/ \E cl \in ContentLengths, src \in Sources : FetchOk(r, cl, src)
  \/ ProbeFail(r)
  \/ \E rate \in RateStrings, outcome \in CallOutcomes : ProbeOk(r, rate, outcome)
  \/ EngineStartFail(r)
  \/ EngineSpawn(r)
  \/ UpstreamEnd(r)
  \/ UpstreamError(r)
  \/ ProcExitOk(r)
  \/ ProcExitErr(r)

\* one request, with the event loop running and the upstream, the engine and
\* the probe each coming to an end
FairSpecEnv == Spec /\ WF_vars(Sched("r1")) /\ WF_vars(Env("r1"))

\* two concurrent requests
NextConc ==
  \E r \in Reqs :
    Step(r, Endpoints, SmallLengths, SmallSources, SmallRates, ConcBytes)

SpecConc == Init /\ [][NextConc]_vars

(* ---------------------------------------------------------------------- *)
(* Properties                                                              *)
(* ---------------------------------------------------------------------- *)

\* the handler of request r has got the answer of its upstream fetch
Fetched(r) == req[r].fetch = "ok"

\* the content-length, in bytes, is greater than 30,000 MB
ExceedsThreshold(cl) ==
  /\ cl # NoLength
  /\ \/ cl[1] > SizeLimitMB
     \/ cl[1] = SizeLimitMB /\ cl[2] > 0

\* C1: every /transcode request whose source reports a content-length
\* greater than 30,000 MB is answered 413 and never gets an engine session.
C1_OversizeRejected ==
  \A r \in Reqs :
    (req[r].ep = "transcode" /\ Fetched(r) /\ ExceedsThreshold(req[r].cl))
      => (req[r].status = 413 /\ req[r].eng = "none")

\* C2: on each of the three endpoints a request without url is answered 400
\* with a JSON error, and neither an upstream fetch nor an engine session nor
\* a probe is started for it.
C2_MissingUrl ==
  \A r \in Reqs :
    (req[r].pc # "idle" /\ ~req[r].hasUrl)
      => /\ req[r].status = 400
         /\ req[r].body = "error"
         /\ req[r].ctype = "application/json"
         /\ req[r].rcvStatus = 400
         /\ req[r].rcvBody = "error"
         /\ req[r].fetches = 0
         /\ req[r].fetch = "none"
         /\ req[r].up = "none"
         /\ req[r].eng = "none"
         /\ req[r].probe = "none"

C2_Witness ==
  /\ req["r1"].ep = "audio-remux"
  /\ ~req["r1"].hasUrl
  /\ req["r1"].rcvStatus = 400
  /\ req["r1"].ended

\* C3: when the engine session fails before any output byte was written to
\* the response, a client that is still connected has received a 5xx JSON
\* transcoding-failure error.
C3_FailureBeforeBytes ==
  \A r \in Reqs :
    (req[r].eng = "Failed" /\ req[r].written = 0 /\ req[r].client = "connected")
      => (req[r].rcvStatus = 500 /\ req[r].rcvBody = "error")

\* C4: an engine failure that comes after the response headers were sent
\* writes no status and no body to the response, and the response of a
\* session that failed while streaming is eventually ended.
C4_FailureWhileStreaming ==
  /\ [][\A r \in Reqs :
          (req[r].headersSent /\ req[r].eng # "Failed" /\ req'[r].eng = "Failed")
            => /\ req'[r].status = req[r].status
               /\ req'[r].body = req[r].body
               /\ req'[r].ctype = req[r].ctype
               /\ req'[r].rcvStatus = req[r].rcvStatus
               /\ req'[r].rcvBody = req[r].rcvBody]_vars
  /\ \A r \in Reqs :
       (req[r].eng = "Failed" /\ req[r].body = "video") ~> req[r].ended

C4_Witness ==
  /\ req["r1"].eng = "Failed"
  /\ req["r1"].rcvBytes > 0
  /\ req["r1"].rcvStatus = 200
  /\ req["r1"].rcvBody = "video"
  /\ req["r1"].rcvEnd

\* C5: after the client went away while stdout was piped into the response
\* (the close of the response was seen), the engine process is eventually gone and the upstream connection is
\* eventually closed.
C5_DisconnectReleases ==
  \A r \in Reqs :
    req[r].closeTimer
      ~> (req[r].proc # "run" /\ req[r].up \in {"none", "ended", "error"})

\* the format names of FormatNames that contain "mp4"
Mp4Formats == {Fmt_mp4, Fmt_amp4}

\* C6: a started /transcode session copies the video when the source is
\* H.264 in an MP4-compatible container and re-encodes it to H.264 otherwise;
\* the audio is always re-encoded to AAC.
C6_VideoAction ==
  \A r \in Reqs :
    (req[r].ep = "transcode" /\ req[r].eng # "none")
      => /\ req[r].vcodec =
              IF req[r].src.codec = "h264" /\ req[r].src.format \in Mp4Formats
              THEN "copy" ELSE "libx264"
         /\ req[r].acodec = "aac"

\* C7: every /audio-remux request whose fetch succeeded, whatever the codec
\* and the content-length, is never answered 413 and has a session with
\* video copy and audio aac.
C7_RemuxAlwaysCopies ==
  \A r \in Reqs :
    (req[r].ep = "audio-remux" /\ Fetched(r))
      => /\ req[r].status # 413
         /\ req[r].rcvStatus # 413
         /\ req[r].eng # "none"
         /\ req[r].vcodec = "copy"
         /\ req[r].acodec = "aac"

C7_Witness ==
  /\ req["r1"].ep = "audio-remux"
  /\ ExceedsThreshold(req["r1"].cl)
  /\ req["r1"].cl[1] > SizeLimitMB
  /\ req["r1"].src.codec = "hevc"
  /\ req["r1"].eng = "Running"
  /\ req["r1"].rcvBytes > 0

\* C8: in an /info result mobileCompatible is true exactly when the video
\* codec is h264 and the format name contains mp4; a probe that reports no
\* video stream gives a 200 JSON result in which it is false.
C8_MobileCompatible ==
  \A r \in Reqs :
    /\ (req[r].ep = "info" /\ req[r].body = "info")
         => /\ req[r].status = 200
            /\ req[r].client = "connected"
                 => (req[r].rcvStatus = 200 /\ req[r].rcvBody = "info")
            /\ req[r].mobile <=>
                 (req[r].src.codec = "h264" /\ req[r].src.format \in Mp4Formats)
    /\ (req[r].ep = "info" /\ req[r].probe = "ok" /\ req[r].src.codec = "none")
         => /\ req[r].status = 200
            /\ req[r].body = "info"
            /\ ~req[r].mobile

C8_Witness ==
  /\ req["r1"].ep = "info"
  /\ req["r1"].probe = "ok"
  /\ req["r1"].src.codec = "none"
  /\ req["r1"].src.format = Fmt_mp4
  /\ req["r1"].rcvStatus = 200
  /\ req["r1"].rcvBody = "info"
  /\ ~req["r1"].mobile

\* C9: when the upstream fetch fails, the response is a 500 JSON error, which
\* a client that is still connected has received, and neither an engine
\* session nor a probe was started.
C9_FetchFailure ==
  \A r \in Reqs :
    req[r].fetch = "failed"
      => /\ req[r].status = 500
         /\ req[r].body = "error"
         /\ req[r].ctype = "application/json"
         /\ req[r].ended
         /\ req[r].client = "connected"
              => (req[r].rcvStatus = 500 /\ req[r].rcvBody = "error")
         /\ req[r].eng = "none"
         /\ req[r].proc = "none"
         /\ req[r].probe = "none"

C9_Witness ==
  /\ req["r1"].ep = "transcode"
  /\ req["r1"].fetch = "failed"
  /\ req["r1"].up = "open"
  /\ req["r1"].rcvStatus = 500

\* C10: with two requests in flight, every step changes the state, and so
\* the response, of at most one of them.
C10_Independent ==
  [][\A r \in Reqs, s \in Reqs :
       (r # s /\ req[r].pc # "idle" /\ req[s].pc # "idle" /\ req'[r] # req[r])
         => req'[s] = req[s]]_vars

\* C11: on /info a failed probe gives a 500 JSON error and a successful
\* probe gives the JSON metadata; either way exactly one response is sent.
C11_ProbeResponse ==
  \A r \in Reqs :
    /\ (req[r].ep = "info" /\ req[r].probe = "failed")
         => /\ req[r].status = 500
            /\ req[r].body = "error"
            /\ req[r].sends = 1
            /\ req[r].ended
            /\ req[r].client = "connected"
                 => (req[r].rcvStatus = 500 /\ req[r].rcvBody = "error")
    /\ (req[r].ep = "info" /\ req[r].probe = "ok")
         => /\ req[r].status = 200
            /\ req[r].body = "info"
            /\ req[r].sends = 1
            /\ req[r].ended
            /\ req[r].client = "connected"
                 => (req[r].rcvStatus = 200 /\ req[r].rcvBody = "info")

\* C12: on a streamed response the streaming headers (Content-Type
\* video/mp4 with Accept-Ranges and Cache-Control) have been set, exactly
\* once, before the first output byte is written, the bytes go out under
\* status 200, and the headers are not set again or changed afterwards.
C12_HeadersBeforeBytes ==
  [][\A r \in Reqs :
       /\ req'[r].written > 0
            => /\ req'[r].ctype = "video/mp4"
               /\ req'[r].hdrSets = 1
               /\ req'[r].headersSent
       /\ req'[r].rcvBytes > 0 => req'[r].rcvStatus = 200
       /\ req[r].written > 0
            => /\ req'[r].ctype = req[r].ctype
               /\ req'[r].hdrSets = req[r].hdrSets
               /\ req'[r].status = req[r].status]_vars

C12_Witness ==
  /\ req["r1"].ep = "audio-remux"
  /\ req["r1"].rcvBytes = 2
  /\ req["r1"].ctype = "video/mp4"
  /\ req["r1"].hdrSets = 1
  /\ req["r1"].rcvEnd

\* request r has reached a terminal outcome: its response has ended or its
\* client is gone, and neither a fetch, a probe nor an engine is still at work
Terminal(r) ==
  /\ req[r].pc \notin {"idle", "fetch", "probe"}
  /\ req[r].ended \/ req[r].client = "gone"
  /\ req[r].eng # "Starting"
  /\ req[r].proc # "run"
  /\ req[r].stdout # "open"
  /\ ~req[r].closeTimer

\* C13: no request reaches a terminal outcome (completion, client
\* disconnect, upstream error, engine failure, 413) while the upstream
\* connection it opened is still open.
C13_UpstreamReleased ==
  \A r \in Reqs :
    Terminal(r) => req[r].up \in {"none", "ended", "error"}

EngStep(r) == <<req[r].eng, req'[r].eng>>

\* C15 as stated: a session moves only along
\* Starting -> Running -> {Completed | Failed}, and only one is ever created.
C15_SessionLifecycle ==
  [][\A r \in Reqs :
       /\ req'[r].eng # req[r].eng
            => EngStep(r) \in { <<"none", "Starting">>,
                                <<"Starting", "Running">>,
                                <<"Running", "Completed">>,
                                <<"Running", "Failed">> }
       /\ req'[r].sessions <= 1]_vars

\* C15 amended: a session moves only along
\* Starting -> Running -> {Completed | Failed} or, when the engine cannot be
\* started, Starting -> Failed; Completed and Failed are absorbing and only
\* one session is ever created for a request.
C15_SessionLifecycleAmended ==
  [][\A r \in Reqs :
       /\ req'[r].eng # req[r].eng
            => EngStep(r) \in { <<"none", "Starting">>,
                                <<"Starting", "Running">>,
                                <<"Starting", "Failed">>,
                                <<"Running", "Completed">>,
                                <<"Running", "Failed">> }
       /\ req'[r].sessions <= 1
       /\ req'[r].sessions >= req[r].sessions]_vars

C15_Witness ==
  /\ req["r1"].eng = "Failed"
  /\ req["r1"].proc = "none"
  /\ req["r1"].sessions = 1
  /\ req["r1"].rcvStatus = 500

\* C16: once the source stream has errored under a running session, the
\* session is Failed (and so never Completed), and the response is
\* eventually ended.
C16_UpstreamErrorFails ==
  /\ [](\A r \in Reqs : req[r].up = "error" => req[r].eng = "Failed")
  /\ \A r \in Reqs : (req[r].up = "error") ~> req[r].ended

C16_Witness ==
  /\ req["r1"].up = "error"
  /\ req["r1"].eng = "Failed"
  /\ req["r1"].proc = "killed"
  /\ req["r1"].rcvBytes > 0
  /\ req["r1"].ended

\* C17: a request issues at most one upstream GET in its whole lifetime,
\* whatever fails afterwards.
C17_SingleFetch ==
  \A r \in Reqs :
    /\ req[r].fetches <= 1
    /\ req[r].fetch # "none" => req[r].fetches = 1

C17_Witness ==
  /\ req["r1"].fetch = "ok"
  /\ req["r1"].eng = "Failed"
  /\ req["r1"].ended
  /\ req["r1"].fetches = 1

\* s is a prefix of t
IsPrefix(s, t) ==
  /\ Len(s) <= Len(t)
  /\ \A i \in 1..Len(s) : s[i] = t[i]

\* C18: the video bytes the client has received are a prefix of the bytes
\* the engine has produced, in the same order.
C18_OrderedPrefix ==
  \A r \in Reqs : IsPrefix(req[r].rcvSeq, req[r].outSeq)

C18_Witness ==
  /\ req["r1"].outSeq = <<1, 2>>
  /\ req["r1"].rcvSeq = <<1, 2>>
  /\ req["r1"].rcvEnd

\* C19: a /transcode request whose upstream response has no content-length
\* is never answered 413 and gets an engine session.
C19_UnknownSizeNotGated ==
  \A r \in Reqs :
    (req[r].ep = "transcode" /\ Fetched(r) /\ req[r].cl = NoLength)
      => /\ req[r].status # 413
         /\ req[r].rcvStatus # 413
         /\ req[r].sessions = 1
         /\ req[r].eng # "none"

C19_Witness ==
  /\ req["r1"].ep = "transcode"
  /\ req["r1"].fetch = "ok"
  /\ req["r1"].cl = NoLength
  /\ req["r1"].eng = "Running"
  /\ req["r1"].rcvBytes > 0

\* C20: a /transcode request whose known content-length is at or below
\* 30000 * 1024 * 1024 bytes is never answered 413.
C20_AtOrBelowNotRejected ==
  \A r \in Reqs :
    (req[r].ep = "transcode" /\ Fetched(r) /\ req[r].cl # NoLength
       /\ ~ExceedsThreshold(req[r].cl))
      => /\ req[r].status # 413
         /\ req[r].rcvStatus # 413
         /\ req[r].eng # "none"

C20_Witness ==
  /\ req["r1"].ep = "transcode"
  /\ req["r1"].cl = <<SizeLimitMB - 1, BytesPerMB \div 2>>
  /\ FileSizeMB(req["r1"].cl) = SizeLimitMB
  /\ req["r1"].eng = "Running"
  /\ req["r1"].rcvStatus = 200

\* the fraction parse: a numerator, "/" and a denominator give a number,
\* every other string a parse failure
ParseFraction(s) ==
  IF Len(s) = 3 /\ s[1] \in Numerals /\ s[2] = "/" /\ s[3] \in Numerals
  THEN [kind |-> "number", num |-> NumVal(s[1]), den |-> NumVal(s[3])]
  ELSE FpsFailure

\* C21: on /info the frame rate of a probed video stream is the fraction
\* parse of the probed string, a number or a parse failure, and computing
\* it has no other effect: no code named by the string is run and the
\* server keeps serving.
C21_FractionParseOnly ==
  \A r \in Reqs :
    (req[r].ep = "info" /\ req[r].probe = "ok" /\ req[r].src.codec # "none")
      => /\ req[r].fps = ParseFraction(req[r].rate)
         /\ ~req[r].effect
         /\ ~req[r].dead

\* C22: a step that logs a progress line changes nothing of any request:
\* session state, response status and headers, bytes sent and upstream
\* connection stay as they were.
C22_ProgressOnlyLogs ==
  [][plog' # plog => req' = req]_vars

C22_Witness ==
  /\ plog # {}
  /\ req["r1"].eng = "Running"
  /\ req["r1"].proc = "run"
  /\ req["r1"].up = "flowing"
  /\ req["r1"].written > 0

\* C23: a request never has more than one response committed: no step sends
\* a second one, and once headers or bytes have gone out no step changes
\* the status or the body kind, so no JSON error follows them.
C23_SingleResponse ==
  [][\A r \in Reqs :
       /\ req'[r].sends <= 1
       /\ req[r].headersSent
            => /\ req'[r].status = req[r].status
               /\ req'[r].body = req[r].body
               /\ req'[r].sends = req[r].sends
               /\ req'[r].headersSent]_vars

C23_Witness ==
  /\ req["r1"].eng = "Failed"
  /\ req["r1"].proc = "exitErr"
  /\ req["r1"].written > 0
  /\ req["r1"].sends = 1
  /\ req["r1"].body # "error"
  /\ req["r1"].ended

\* the client has its outcome: the response has ended (a JSON response or
\* the end of the stream) or the connection is closed
Outcome(r) ==
  req[r].ended \/ req[r].client = "gone" \/ req[r].closed

\* C24: every accepted request eventually has its outcome for the client.
C24_EventualOutcome ==
  \A r \in Reqs : (req[r].pc # "idle") ~> Outcome(r)

====
